---- MODULE Spec2Model ----
(***************************************************************************)
(* Model of the gated caption gallery: the session bootstrap, the session  *)
(* change listener, the data loads and the vote mutation handler of the    *)
(* page components, together with the hosted store they talk to.           *)
(*                                                                         *)
(* The repository holds several variants of the same page.  The ones that  *)
(* vote are modelled side by side; `variant` selects one at Init:          *)
(*   "undoErr"  src/unnamed/part_000       App  (upsert + delete/undo,     *)
(*                                              failures go to setError)   *)
(*   "undoLog"  src/app/page.tsx:216-499   App  (upsert + delete/undo,     *)
(*                                              failures go to the console)*)
(*   "upsert"   src/components/LoginButton.tsx:97-349 Home (upsert only,   *)
(*                                              votingId, setError)        *)
(*   "insert"   src/unnamed/part_001       Home (insert only, votingId,    *)
(*                                              failures go to the console)*)
(***************************************************************************)
EXTENDS Integers, Sequences, FiniteSets, TLC

\* ---------------------------------------------------------------- bounds
\* Largest number of handler invocations suspended at a network call.
MaxTasks == 2
\* Largest number of handleVote calls with an identity in one run.
MaxVotes == 2

\* ------------------------------------------------------------- constants
Identities == {"u1", "u2"}
Items == {"c1", "c2"}
Null == "null"
Up == 1
Down == -1
Dirs == {Up, Down}
\* userVotes[id] of a key that is not in the record is undefined.
NoVote == 0
Variants == {"undoErr", "undoLog", "upsert", "insert"}

VARIABLES
    variant,     \* which page component is mounted
    accounts,    \* the identities that can sign in at the provider
    captionsTbl, \* remote content table: the ids of its rows
    votesTbl,    \* remote vote table: per (identity, item) the rows held
    session,     \* the auth provider's current session (identity or Null)
    user,        \* useState user
    captions,    \* useState captions / displayData / images (ids shown)
    userVotes,   \* useState userVotes: item -> direction, NoVote = no key
    loading,     \* useState loading
    error,       \* useState error: Null or "message"
    votingId,    \* useState votingId (variants with an in-flight marker)
    tasks,       \* handler invocations suspended at an await, oldest first
    refused,     \* the last step was a handleVote that returned at its gate
    settled,     \* history: only non-overlapping votes since a synced state
    nVotes,      \* history: handleVote calls made with an identity
    requests,    \* callback route: the requests received, oldest first
    codes,       \* auth provider: authorization codes not yet redeemed
    mounted,     \* the page component is mounted (its state is live)
    subscribed,  \* the onAuthStateChange subscription is active
    signIns      \* auth provider: the signInWithOAuth calls received

vars == <<variant, accounts, captionsTbl, votesTbl, session, user, captions,
          userVotes, loading, error, votingId, tasks, refused, settled, nVotes,
          requests, codes, mounted, subscribed, signIns>>

\* -------------------------------------------------------------- variants
\* Every page treating a click on the active direction as an undo.
HasUndoEverywhere(v) == TRUE

\* The pages whose handleVote has the delete branch.
HasUndo(v) == v \in {"undoErr", "undoLog"}

HasVotingId(v) == v \in {"upsert", "insert"}
SurfacesVoteError(v) == v \in {"undoErr", "upsert"}

\* No page fetching content and votes in one fetchData.
CombinedLoadNowhere(v) == FALSE

\* The pages whose fetchData fetches content and votes in one try block.
CombinedLoad(v) == v \in {"upsert", "insert"}

CatchesInit(v) == v \in {"upsert", "insert"}

EmptyVotes == [c \in Items |-> NoVote]
EmptyTbl == [k \in Identities \X Items |-> <<>>]

\* ------------------------------------------------------------ the store
\* select caption_id, vote_value where profile_id = uid, folded into a map:
\* a later row of the same caption overwrites an earlier one.
FetchMap(tbl, uid) ==
    [c \in Items |-> IF tbl[<<uid, c>>] = <<>> THEN NoVote
                     ELSE tbl[<<uid, c>>][Len(tbl[<<uid, c>>])]]

\* An upsert whose result depends on the row it finds: an existing vote is
\* turned around.
UpsertFlipsExisting(tbl, uid, c, d) ==
    [tbl EXCEPT ![<<uid, c>>] = IF @ = <<>> THEN <<d>> ELSE <<0 - @[1]>>]

\* upsert(row, {onConflict: 'profile_id,caption_id'}) that ignored the
\* conflict target: a second row is added next to the existing one.
UpsertNoConflict(tbl, uid, c, d) ==
    [tbl EXCEPT ![<<uid, c>>] = Append(@, d)]

\* upsert(row, {onConflict: 'profile_id,caption_id'})
Upsert(tbl, uid, c, d) ==
    [tbl EXCEPT ![<<uid, c>>] = <<d>>]

\* A delete whose filter matches no row.
DeleteMatchesNothing(tbl, uid, c) == tbl

\* delete().eq('caption_id', c).eq('profile_id', uid)
Delete(tbl, uid, c) ==
    [tbl EXCEPT ![<<uid, c>>] = <<>>]

\* insert([row]) under the uniqueness constraint on (identity, item)
InsertConflicts(tbl, uid, c) == tbl[<<uid, c>>] # <<>>
Insert(tbl, uid, c, d) ==
    [tbl EXCEPT ![<<uid, c>>] = Append(@, d)]

\* ---------------------------------------------------------------- tasks
NoTask == [kind |-> "none", pc |-> "none", uid |-> Null, item |-> Null,
           dir |-> NoVote, op |-> "none", res |-> "none", writes |-> 0,
           seq |-> 0]

LoadTask(pc, uid) == [NoTask EXCEPT !.kind = "load", !.pc = pc, !.uid = uid,
                                    !.op = "select"]

RemoveAt(s, i) == [j \in 1..(Len(s) - 1) |-> IF j < i THEN s[j] ELSE s[j + 1]]

VoteTasks == {i \in 1..Len(tasks) : tasks[i].kind = "vote"}
InFlight(c) == \E i \in VoteTasks : tasks[i].item = c

Synced == user # Null /\ userVotes = FetchMap(votesTbl, user)

\* ------------------------------------------------------------------ Init
InitWith(vs, accs) ==
    /\ variant \in vs
    /\ accounts = accs
    /\ captionsTbl \in {{}, Items}
    /\ votesTbl = EmptyTbl
    /\ session \in accs \cup {Null}
    /\ user = Null
    /\ captions = {}
    /\ userVotes = EmptyVotes
    /\ loading = TRUE
    /\ error = Null
    /\ votingId = Null
    /\ tasks = <<LoadTask("getSession", Null)>>
    /\ refused = FALSE
    /\ settled = FALSE
    /\ nVotes = 0
    /\ mounted = TRUE
    /\ subscribed = TRUE
    /\ signIns = <<>>

\* One account signs in and out of the mounted page; the callback route is
\* idle.
Init ==
    /\ InitWith(Variants, {"u1"})
    /\ requests = <<>>
    /\ codes = {}

\* ------------------------------------------------- session bootstrap/load
\* The synchronous head of fetchData: setLoading(true); setError(null); the
\* content select is sent and the handler suspends.
StartLoad(uid) ==
    /\ loading' = TRUE
    /\ error' = Null
    /\ tasks' = Append(tasks, LoadTask("content", uid))

\* history variable: a step that is not part of a vote leaves a settled
\* state exactly when nothing is in flight and the mapping mirrors the store
SettledAfterOther == settled' = (tasks' = <<>> /\ Synced')

\* `const { data: { session } } = await supabase.auth.getSession()`: the
\* session the handler sees.  A result that carries an error has no session.
SessionSeen(outcome) == IF outcome = "ok" THEN session ELSE Null

\* initAuth, continuation of `await supabase.auth.getSession()`.
InitAuth(i, outcome) ==
    /\ mounted
    /\ tasks[i].kind = "load" /\ tasks[i].pc = "getSession"
    /\ refused' = FALSE
    /\ IF outcome # "throw"
       THEN /\ user' = SessionSeen(outcome)
            /\ IF SessionSeen(outcome) # Null
               THEN /\ loading' = TRUE
                    /\ error' = Null
                    /\ tasks' = [tasks EXCEPT ![i] =
                                  LoadTask("content", SessionSeen(outcome))]
               ELSE /\ loading' = FALSE
                    /\ tasks' = RemoveAt(tasks, i)
                    /\ UNCHANGED error
       ELSE \* getSession rejected
            /\ loading' = IF CatchesInit(variant) THEN FALSE ELSE loading
            /\ tasks' = RemoveAt(tasks, i)
            /\ UNCHANGED <<user, error>>
    /\ UNCHANGED <<signIns, mounted, subscribed, requests, codes, variant, accounts, captionsTbl, votesTbl, session, captions,
                   userVotes, votingId, nVotes>>
    /\ SettledAfterOther

\* The signed-out branch without setUserVotes({}).
KeptVotes(uv) == uv

\* setUserVotes({}) of the signed-out branch.
ClearedVotes(uv) == EmptyVotes

\* The onAuthStateChange listener, called by the provider with the new
\* session s (sign-in completed, sign-out, token refresh).
OnAuthStateChange(s) ==
    /\ subscribed
    /\ session' = s
    /\ user' = s
    /\ IF s # Null
       THEN /\ Len(tasks) < MaxTasks
            /\ StartLoad(s)
            /\ UNCHANGED <<captions, userVotes>>
       ELSE /\ captions' = {}
            /\ userVotes' = ClearedVotes(userVotes)
            /\ loading' = FALSE
            /\ UNCHANGED <<error, tasks>>
    /\ UNCHANGED <<signIns, mounted, subscribed, requests, codes, variant, accounts, captionsTbl, votesTbl, votingId, nVotes>>
    /\ SettledAfterOther

AuthStateChange(s) ==
    /\ refused' = FALSE
    /\ OnAuthStateChange(s)

\* handleLogout / the Sign Out button (rendered only for a signed-in user):
\* the provider drops the session and calls the listener with no session.
HandleLogout ==
    /\ mounted
    /\ user # Null /\ ~loading
    /\ refused' = FALSE
    /\ OnAuthStateChange(Null)

\* A fetchData that reports a table without rows as a failure.
ErrorAfterContentEmptyIsError(e, rows) == IF rows = {} THEN "message" ELSE e

\* The error state after a content select that succeeded: untouched, also
\* when no rows came back (`data || []`).
ErrorAfterContent(e, rows) == e

\* fetchData, continuation of the content select.
ContentResolve(i, outcome) ==
    /\ mounted
    /\ tasks[i].kind = "load" /\ tasks[i].pc = "content"
    /\ refused' = FALSE
    /\ IF CombinedLoad(variant)
       THEN IF outcome = "ok"
            THEN /\ tasks' = [tasks EXCEPT ![i].pc = "votesSent"]
                 /\ UNCHANGED <<captions, error, loading>>
            ELSE /\ error' = "message"
                 /\ loading' = FALSE
                 /\ tasks' = RemoveAt(tasks, i)
                 /\ UNCHANGED captions
       ELSE CASE outcome = "ok" ->
                 /\ captions' = captionsTbl
                 /\ loading' = FALSE
                 /\ tasks' = [tasks EXCEPT ![i].pc = "votesSent"]
                 /\ error' = ErrorAfterContent(error, captionsTbl)
              [] outcome = "error" ->
                 /\ error' = "message"
                 /\ loading' = FALSE
                 /\ tasks' = [tasks EXCEPT ![i].pc = "votesSent"]
                 /\ UNCHANGED captions
              [] OTHER ->  \* the select rejected: nothing catches it
                 /\ tasks' = RemoveAt(tasks, i)
                 /\ UNCHANGED <<captions, error, loading>>
    /\ UNCHANGED <<signIns, mounted, subscribed, requests, codes, variant, accounts, captionsTbl, votesTbl, session, user, userVotes,
                   votingId, nVotes>>
    /\ SettledAfterOther

\* A load that adds the fetched rows to the entries already held.
LoadedVotesMerged(uv, tbl, uid) ==
    [c \in Items |-> IF FetchMap(tbl, uid)[c] # NoVote
                     THEN FetchMap(tbl, uid)[c] ELSE uv[c]]

\* setUserVotes(votesMap): the mapping built from the fetched rows alone.
LoadedVotes(uv, tbl, uid) == FetchMap(tbl, uid)

\* fetchUserVotes / the second half of the combined fetchData: the store
\* answers the select on the vote table and the continuation runs.
VotesResolve(i, outcome) ==
    /\ mounted
    /\ tasks[i].kind = "load" /\ tasks[i].pc = "votesSent"
    /\ refused' = FALSE
    /\ tasks' = RemoveAt(tasks, i)
    /\ IF CombinedLoad(variant)
       THEN /\ loading' = FALSE
            /\ IF outcome = "ok"
               THEN /\ captions' = captionsTbl
                    /\ userVotes' = LoadedVotes(userVotes, votesTbl,
                                                tasks[i].uid)
                    /\ UNCHANGED error
               ELSE /\ error' = "message"
                    /\ UNCHANGED <<captions, userVotes>>
       ELSE /\ userVotes' = IF outcome = "ok"
                            THEN LoadedVotes(userVotes, votesTbl,
                                             tasks[i].uid)
                            ELSE userVotes
            /\ UNCHANGED <<captions, error, loading>>
    /\ UNCHANGED <<signIns, mounted, subscribed, requests, codes, variant, accounts, captionsTbl, votesTbl, session, user,
                   votingId, nVotes>>
    /\ SettledAfterOther

\* ----------------------------------------------------------- rendering
\* page.tsx App: `if (loading) return ...`, `{!user ? ... : ...}`, then
\* `{error && ...}` and `{captions.length === 0 && !error && ...}`.
ErrorShown == ~loading /\ user # Null /\ error # Null
EmptyStateShown == ~loading /\ user # Null /\ captions = {} /\ error = Null

\* A render without the `!user` branch: the gallery whenever loading is over.
ViewUngated(l, u) == IF l THEN "loading" ELSE "gallery"

\* What every page component renders: `if (loading) return <loading screen>`,
\* then `{!user ? <locked notice> : <gallery>}`.
View(l, u) ==
    IF l THEN "loading" ELSE IF u = Null THEN "locked" ELSE "gallery"

\* `captions.map(item => ...)` inside the gallery branch: the items on the
\* screen, each with its two vote buttons.
ItemsShown == IF View(loading, user) = "gallery" THEN captions ELSE {}

\* ------------------------------------------------------- vote workflow
\* handleVote without the undo branch: every click is written.
WriteOpNoUndo(v, uv, c, d) ==
    IF v = "insert" THEN "insert" ELSE "upsert"

\* handleVote that takes any existing vote, not only an equal one, as undo.
WriteOpDeleteOnAny(v, uv, c, d) ==
    IF HasUndo(v) /\ uv[c] # NoVote THEN "delete"
    ELSE IF v = "insert" THEN "insert" ELSE "upsert"

\* handleVote that upserts on every page, also where the code inserts.
WriteOpUpsertOnly(v, uv, c, d) ==
    IF HasUndo(v) /\ uv[c] = d THEN "delete" ELSE "upsert"

\* Which remote write handleVote sends for a click of direction d on c.
WriteOp(v, uv, c, d) ==
    IF HasUndo(v) /\ uv[c] = d THEN "delete"
    ELSE IF v = "insert" THEN "insert" ELSE "upsert"

VoteTask(uid, c, d, op) ==
    [NoTask EXCEPT !.kind = "vote", !.pc = "sent", !.uid = uid, !.item = c,
                   !.dir = d, !.op = op, !.writes = 1]

\* `if (!user) return;` with the check left out.
AuthorizedAlways(u) == TRUE

\* `if (!user) return;`: the only gate in front of the mutation.
Authorized(u) == u # Null

\* handleVote(captionId, value) up to its first await; a run makes at most
\* `budget` calls with an identity.
HandleVoteWithin(c, d, budget) ==
    IF ~Authorized(user)
    THEN /\ refused' = TRUE
         /\ UNCHANGED <<signIns, mounted, subscribed, requests, codes, variant, accounts, captionsTbl, votesTbl, session, user,
                        captions, userVotes, loading, error, votingId, tasks,
                        settled, nVotes>>
    ELSE /\ Len(tasks) < MaxTasks
         /\ nVotes < budget
         /\ nVotes' = nVotes + 1
         /\ tasks' = Append(tasks,
                VoteTask(user, c, d, WriteOp(variant, userVotes, c, d)))
         /\ votingId' = IF HasVotingId(variant) THEN c ELSE votingId
         /\ refused' = FALSE
         /\ settled' = (settled /\ ~InFlight(c))
         /\ UNCHANGED <<signIns, mounted, subscribed, requests, codes, variant, accounts, captionsTbl, votesTbl, session, user,
                        captions, userVotes, loading, error>>

HandleVote(c, d) == HandleVoteWithin(c, d, MaxVotes)

\* A vote button of a rendered item: the gallery is rendered for a signed-in
\* user once loading is over, and `disabled={votingId === item.id}`.
Disabled(c) == HasVotingId(variant) /\ votingId = c
Rendered(c) == mounted /\ c \in ItemsShown

ClickVote(c, d) ==
    /\ Rendered(c) /\ ~Disabled(c)
    /\ HandleVote(c, d)

\* handleVote called with no identity (no control is rendered for it).
VoteSignedOut(c, d) ==
    /\ mounted
    /\ user = Null
    /\ HandleVote(c, d)

\* The store's effect for a write it accepts.
ApplyWrite(tbl, t) ==
    CASE t.op = "delete" -> Delete(tbl, t.uid, t.item)
      [] t.op = "insert" -> Insert(tbl, t.uid, t.item, t.dir)
      [] OTHER -> Upsert(tbl, t.uid, t.item, t.dir)

\* A write keyed by whoever is signed in when the store applies it.
WriteIdentityCurrent(t, cur) == cur

\* `profile_id: user.id` / `.eq('profile_id', user.id)`: the request carries
\* the identity the handler's closure held when it was called.
WriteIdentity(t, cur) == t.uid

\* The store (or the network) answers a vote write: applied, refused with an
\* error payload, or the call rejects before reaching the table.  `stamp` is
\* history: the position of the write in the store's order of application (0
\* where that order is not followed).
StoreWriteStamped(i, outcome, stamp) ==
    /\ tasks[i].kind = "vote" /\ tasks[i].pc = "sent"
    /\ outcome = "ok" =>
          ~(tasks[i].op = "insert"
              /\ InsertConflicts(votesTbl, tasks[i].uid, tasks[i].item))
    /\ votesTbl' = IF outcome = "ok"
                   THEN ApplyWrite(votesTbl,
                          [tasks[i] EXCEPT !.uid = WriteIdentity(tasks[i], user)])
                   ELSE votesTbl
    /\ tasks' = [tasks EXCEPT ![i].pc = "replied", ![i].res = outcome,
                               ![i].seq = stamp]
    /\ refused' = FALSE
    /\ UNCHANGED <<signIns, mounted, subscribed, requests, codes, variant, accounts, captionsTbl, session, user, captions, userVotes,
                   loading, error, votingId, settled, nVotes>>

StoreWrite(i, outcome) == StoreWriteStamped(i, outcome, 0)

\* The local update applied whatever the answer was.
LocalAfterWriteOptimistic(uv, t) ==
    IF t.op = "delete" THEN [uv EXCEPT ![t.item] = NoVote]
    ELSE [uv EXCEPT ![t.item] = t.dir]

\* A successful delete that leaves the key in the mapping.
LocalAfterWriteKeepsKey(uv, t) ==
    IF t.res # "ok" \/ t.op = "delete" THEN uv
    ELSE [uv EXCEPT ![t.item] = t.dir]

\* setUserVotes({[captionId]: value}): the new entry alone, without the
\* entries the mapping held.
LocalAfterWriteOnlyKey(uv, t) ==
    IF t.res # "ok" THEN uv
    ELSE IF t.op = "delete" THEN EmptyVotes
    ELSE [EmptyVotes EXCEPT ![t.item] = t.dir]

\* The local mapping after the write of task t has been answered.
LocalAfterWrite(uv, t) ==
    IF t.res # "ok" THEN uv
    ELSE IF t.op = "delete" THEN [uv EXCEPT ![t.item] = NoVote]
    ELSE [uv EXCEPT ![t.item] = t.dir]

\* The error state after the write of task t has been answered.
ErrorAfterWrite(v, e, t) ==
    IF t.res # "ok" THEN (IF SurfacesVoteError(v) THEN "message" ELSE e)
    ELSE IF v = "upsert" THEN Null ELSE e

\* The delete branch without its `return`: it falls through to the upsert.
AfterDeleteFallThrough == "upsert"

\* What handleVote does after a successful delete: `return`.
AfterDelete == "done"

\* handleVote, continuation of the awaited write (and its catch/finally).
VoteResolve(i) ==
    /\ mounted
    /\ tasks[i].kind = "vote" /\ tasks[i].pc = "replied"
    /\ refused' = FALSE
    /\ userVotes' = LocalAfterWrite(userVotes, tasks[i])
    /\ error' = ErrorAfterWrite(variant, error, tasks[i])
    /\ IF tasks[i].op = "delete" /\ tasks[i].res = "ok" /\ AfterDelete # "done"
       THEN tasks' = [tasks EXCEPT ![i].pc = "sent", ![i].op = "upsert",
                                   ![i].res = "none", ![i].writes = @ + 1]
       ELSE tasks' = RemoveAt(tasks, i)
    /\ votingId' = IF HasVotingId(variant) THEN Null ELSE votingId
    /\ UNCHANGED <<signIns, mounted, subscribed, requests, codes, variant, accounts, captionsTbl, votesTbl, session, user, captions,
                   loading, settled, nVotes>>

Outcomes == {"ok", "error", "throw"}

Next ==
    \/ \E i \in 1..Len(tasks), o \in Outcomes : InitAuth(i, o)
    \/ \E s \in accounts \cup {Null} : AuthStateChange(s)
    \/ HandleLogout
    \/ \E i \in 1..Len(tasks), o \in Outcomes : ContentResolve(i, o)
    \/ \E i \in 1..Len(tasks), o \in Outcomes : VotesResolve(i, o)
    \/ \E c \in Items, d \in Dirs : ClickVote(c, d)
    \/ \E c \in Items, d \in Dirs : VoteSignedOut(c, d)
    \/ \E i \in 1..Len(tasks), o \in Outcomes : StoreWrite(i, o)
    \/ \E i \in 1..Len(tasks) : VoteResolve(i)

Spec == Init /\ [][Next]_vars

\* ------------------------------------------------------- two accounts
\* Two accounts share the browser: the session can change from one identity
\* to the other while handlers are suspended.  Every call succeeds here.
SwitchInit ==
    /\ InitWith({"undoErr", "upsert"}, Identities)
    /\ captionsTbl = Items
    /\ session # Null
    /\ requests = <<>>
    /\ codes = {}

SwitchNext ==
    \/ \E i \in 1..Len(tasks) : InitAuth(i, "ok")
    \/ \E s \in accounts \cup {Null} : AuthStateChange(s)
    \/ \E i \in 1..Len(tasks) : ContentResolve(i, "ok")
    \/ \E i \in 1..Len(tasks) : VotesResolve(i, "ok")
    \/ \E c \in Items, d \in Dirs : ClickVote(c, d)
    \/ \E i \in 1..Len(tasks) : StoreWrite(i, "ok")
    \/ \E i \in 1..Len(tasks) : VoteResolve(i)

SwitchSpec == SwitchInit /\ [][SwitchNext]_vars

\* --------------------------------------------------------------- teardown
\* The effect's cleanup, `return () => subscription.unsubscribe()`, runs when
\* the page component unmounts.  Calls already sent stay in flight; the
\* provider's session keeps changing, seen or not.

\* A cleanup that leaves the subscription in place.
CleanupKeepsSubscription(sub) == sub

\* `subscription.unsubscribe()`.
Cleanup(sub) == FALSE

\* The component unmounts and its effect cleanup runs.
Unmount ==
    /\ mounted
    /\ mounted' = FALSE
    /\ subscribed' = Cleanup(subscribed)
    /\ refused' = FALSE
    /\ settled' = FALSE
    /\ UNCHANGED <<signIns, requests, codes, variant, accounts, captionsTbl, votesTbl,
                   session, user, captions, userVotes, loading, error,
                   votingId, tasks, nVotes>>

\* The task a suspended handler becomes when its awaited call returns after
\* the unmount: the handler runs on, and the calls it makes are still made.
ResumedTask(v, t, outcome, seen) ==
    CASE t.pc = "getSession" ->
           IF outcome = "ok" /\ seen # Null
           THEN LoadTask("content", seen) ELSE NoTask
      [] t.pc = "content" ->
           IF outcome = "ok" \/ (~CombinedLoad(v) /\ outcome = "error")
           THEN [t EXCEPT !.pc = "votesSent"] ELSE NoTask
      [] OTHER -> NoTask

\* A continuation of initAuth, the listener, fetchData, fetchUserVotes or
\* handleVote that runs after the unmount: React drops every setState of an
\* unmounted component, so only the handler's position moves.
ResumeDisposed(i, outcome) ==
    /\ ~mounted
    /\ tasks[i].pc \in {"getSession", "content", "votesSent", "replied"}
    /\ tasks' = IF ResumedTask(variant, tasks[i], outcome, session) = NoTask
                THEN RemoveAt(tasks, i)
                ELSE [tasks EXCEPT ![i] =
                        ResumedTask(variant, tasks[i], outcome, session)]
    /\ refused' = FALSE
    /\ UNCHANGED <<signIns, requests, codes, variant, accounts, captionsTbl, votesTbl,
                   session, user, captions, userVotes, loading, error,
                   votingId, settled, nVotes, mounted, subscribed>>

\* The provider's session changes (sign-in elsewhere, sign-out, expiry) while
\* no listener is subscribed: nothing on the page is called.
SessionChangeUnheard(s) ==
    /\ ~subscribed
    /\ session # s
    /\ session' = s
    /\ refused' = FALSE
    /\ UNCHANGED <<signIns, requests, codes, variant, accounts, captionsTbl, votesTbl,
                   user, captions, userVotes, loading, error, votingId,
                   tasks, settled, nVotes, mounted, subscribed>>

TeardownInit ==
    /\ InitWith({"undoErr", "upsert"}, {"u1"})
    /\ requests = <<>>
    /\ codes = {}

TeardownNext ==
    \/ \E i \in 1..Len(tasks) : InitAuth(i, "ok")
    \/ \E s \in accounts \cup {Null} : AuthStateChange(s)
    \/ \E i \in 1..Len(tasks) : ContentResolve(i, "ok")
    \/ \E i \in 1..Len(tasks) : VotesResolve(i, "ok")
    \/ \E c \in Items, d \in Dirs : ClickVote(c, d)
    \/ \E i \in 1..Len(tasks) : StoreWrite(i, "ok")
    \/ \E i \in 1..Len(tasks) : VoteResolve(i)
    \/ Unmount
    \/ \E i \in 1..Len(tasks) : ResumeDisposed(i, "ok")
    \/ \E s \in accounts \cup {Null} : SessionChangeUnheard(s)

TeardownSpec == TeardownInit /\ [][TeardownNext]_vars

\* ------------------------------------------------------ ordered answers
\* Votes of a signed-in user overlap freely; the store applies the writes in
\* any order and every answer reaches the page in the order of application.
RepliedVotes == {i \in VoteTasks : tasks[i].pc = "replied"}

\* The stamp of the next write the store applies.
NextStamp ==
    IF \A i \in VoteTasks : tasks[i].seq = 0 THEN 1
    ELSE 1 + (CHOOSE n \in {tasks[i].seq : i \in VoteTasks} :
                 \A i \in VoteTasks : tasks[i].seq <= n)

StoreApply(i) == StoreWriteStamped(i, "ok", NextStamp)

\* The answer of task i is the oldest one not yet delivered.
Deliver(i) ==
    /\ i \in RepliedVotes
    /\ \A j \in RepliedVotes : tasks[i].seq <= tasks[j].seq
    /\ VoteResolve(i)

OrderedInit ==
    /\ InitWith({"undoErr", "undoLog"}, {"u1"})
    /\ captionsTbl = Items
    /\ session # Null
    /\ requests = <<>>
    /\ codes = {}

OrderedNext ==
    \/ \E i \in 1..Len(tasks) : InitAuth(i, "ok")
    \/ \E i \in 1..Len(tasks) : ContentResolve(i, "ok")
    \/ \E i \in 1..Len(tasks) : VotesResolve(i, "ok")
    \/ \E c \in Items, d \in Dirs : ClickVote(c, d)
    \/ \E i \in 1..Len(tasks) : StoreApply(i)
    \/ \E i \in 1..Len(tasks) : Deliver(i)

OrderedSpec == OrderedInit /\ [][OrderedNext]_vars

\* ------------------------------------------------- one vote after another
\* A signed-in user of a variant with undo votes, undoes and votes again,
\* each click made after the previous one has settled; every call succeeds.
\* Largest number of handleVote calls in such a run.
MaxScenarioVotes == 3

ScenarioInit ==
    /\ InitWith({"undoErr", "undoLog"}, Identities)
    /\ captionsTbl = Items
    /\ session # Null
    /\ requests = <<>>
    /\ codes = {}

\* The second click repeats the first: the button of the direction shown.
ScenarioClick(c, d) ==
    /\ tasks = <<>>
    /\ Rendered(c) /\ ~Disabled(c)
    /\ nVotes = 1 => userVotes[c] = d
    /\ HandleVoteWithin(c, d, MaxScenarioVotes)

ScenarioNext ==
    \/ \E i \in 1..Len(tasks) : InitAuth(i, "ok")
    \/ \E i \in 1..Len(tasks) : ContentResolve(i, "ok")
    \/ \E i \in 1..Len(tasks) : VotesResolve(i, "ok")
    \/ \E c \in Items, d \in Dirs : ScenarioClick(c, d)
    \/ \E i \in 1..Len(tasks) : StoreWrite(i, "ok")
    \/ \E i \in 1..Len(tasks) : VoteResolve(i)

ScenarioSpec == ScenarioInit /\ [][ScenarioNext]_vars

\* ---------------------------------------------------- the callback route
\* src/app/auth/callback/route.ts.  The provider redirects the browser to the
\* route with an authorization code; the route redeems it and answers.
\* Largest number of requests the route receives in one run.
MaxRequests == 2

\* The codes the provider hands out, and the account each one stands for.
Codes == {"k1", "k2"}
CodeOwner(k) == IF k = "k1" THEN "u1" ELSE "u2"

\* searchParams.get('code'): null without the parameter, "" for `?code=`.
CodeParams == Codes \cup {Null, ""}

\* `if (code)`: null and the empty string are falsy.
Truthy(code) == code # Null /\ code # ""

Landing == "/"
Protected == "/protected"

\* NextResponse.redirect(origin): the origin has the path "/".
RedirectTarget(exchanged) == Landing

Request(code, pc, n, res, response) ==
    [code |-> code, pc |-> pc, exchanges |-> n, res |-> res,
     response |-> response]

\* The mounted page plays no part while the route runs.
PageUnchanged ==
    UNCHANGED <<variant, accounts, captionsTbl, votesTbl, user, captions,
                userVotes, loading, error, votingId, tasks, refused, settled,
                nVotes, mounted, subscribed, signIns>>

\* GET(request) up to `await supabase.auth.exchangeCodeForSession(code)`, or
\* to its return when there is no code.
Get(code) ==
    /\ Len(requests) < MaxRequests
    /\ requests' = Append(requests,
          IF Truthy(code)
          THEN Request(code, "exchange", 1, "none", "none")
          ELSE Request(code, "done", 0, "none", RedirectTarget(FALSE)))
    /\ UNCHANGED <<session, codes>>
    /\ PageUnchanged

\* The provider answers the exchange of request i and GET runs to its end.
\* A code is redeemed once; the session cookies are set as a side effect.  A
\* rejected call leaves GET through the exception: no response is built.
ExchangeResolve(i, outcome) ==
    /\ requests[i].pc = "exchange"
    /\ outcome = "ok" => requests[i].code \in codes
    /\ session' = IF outcome = "ok" THEN CodeOwner(requests[i].code)
                  ELSE session
    /\ codes' = IF outcome = "ok" THEN codes \ {requests[i].code} ELSE codes
    /\ requests' = [requests EXCEPT
          ![i].pc = "done",
          ![i].res = outcome,
          ![i].response = IF outcome = "throw" THEN "error"
                          ELSE RedirectTarget(outcome = "ok")]
    /\ PageUnchanged

CallbackInit ==
    /\ InitWith({"insert"}, Identities)
    /\ requests = <<>>
    /\ codes \in SUBSET Codes

CallbackNext ==
    \/ \E code \in CodeParams : Get(code)
    \/ \E i \in 1..Len(requests), o \in Outcomes : ExchangeResolve(i, o)

CallbackSpec == CallbackInit /\ [][CallbackNext]_vars

\* ---------------------------------------------------------------- sign-in
\* The places that call supabase.auth.signInWithOAuth: the LoginButton
\* component and the handleLogin of each page component.
MaxSignIns == 2

Origins == {"https://a.example", "https://b.example"}

PageEntries == {"part_000", "page.tsx App", "LoginButton.tsx Home",
                "part_001"}
EntryPoints == PageEntries \cup {"LoginButton", "page.tsx Home"}

\* The page component an entry point belongs to.
EntryVariant(entry) ==
    CASE entry = "part_000" -> "undoErr"
      [] entry = "page.tsx App" -> "undoLog"
      [] entry = "LoginButton.tsx Home" -> "upsert"
      [] entry = "part_001" -> "insert"
      [] OTHER -> Null

CallbackPath == "/auth/callback"

\* An address is an origin followed by a path; "" is the bare origin.
Address(origin, path) == [origin |-> origin, path |-> path]

\* options.redirectTo of the signInWithOAuth call of each entry point, with
\* window.location.origin = origin.
RedirectTo(entry, origin) ==
    IF entry \in {"LoginButton", "page.tsx Home", "part_001"}
    THEN Address(origin, CallbackPath)
    ELSE Address(origin, "")

\* handleLogin: the Sign-in button of the signed-out view (or the LoginButton
\* component, which has no condition) is clicked.
HandleLogin(entry, origin) ==
    /\ Len(signIns) < MaxSignIns
    /\ entry \in PageEntries =>
          /\ variant = EntryVariant(entry)
          /\ mounted /\ ~loading /\ user = Null
    /\ signIns' = Append(signIns,
          [entry |-> entry, origin |-> origin, provider |-> "google",
           redirectTo |-> RedirectTo(entry, origin)])
    /\ refused' = FALSE
    /\ UNCHANGED <<requests, codes, variant, accounts, captionsTbl, votesTbl,
                   session, user, captions, userVotes, loading, error,
                   votingId, tasks, settled, nVotes, mounted, subscribed>>

SignInInit ==
    /\ InitWith(Variants, {"u1"})
    /\ requests = <<>>
    /\ codes = {}

SignInNext ==
    \/ \E i \in 1..Len(tasks), o \in Outcomes : InitAuth(i, o)
    \/ \E entry \in EntryPoints, origin \in Origins : HandleLogin(entry, origin)

SignInSpec == SignInInit /\ [][SignInNext]_vars

\* ------------------------------------------------------------------ gating
\* The server-rendered protected page and the client pages' own gate.  Votes
\* play no part here.
GatedContent == "gated content"

\* ProtectedPage after `await supabase.auth.getUser()` returned user u:
\* `if (!user) redirect('/')`, else the gated content.
ProtectedResponse(u) == IF u = Null THEN Landing ELSE GatedContent

\* A request for /protected is rendered: getUser answers with the session's
\* user, with an error result (no user), or rejects, which nothing catches.
ProtectedPage(outcome) ==
    /\ Len(requests) < MaxRequests
    /\ requests' = Append(requests,
          Request(Null, "rendered", 0, outcome,
                  IF outcome = "throw" THEN "error"
                  ELSE ProtectedResponse(SessionSeen(outcome))))
    /\ UNCHANGED <<session, codes>>
    /\ PageUnchanged

GatingInit ==
    /\ InitWith(Variants, {"u1"})
    /\ requests = <<>>
    /\ codes = {}

GatingNext ==
    \/ \E i \in 1..Len(tasks), o \in Outcomes : InitAuth(i, o)
    \/ \E s \in accounts \cup {Null} : AuthStateChange(s)
    \/ \E i \in 1..Len(tasks) : ContentResolve(i, "ok")
    \/ \E i \in 1..Len(tasks) : VotesResolve(i, "ok")
    \/ \E o \in Outcomes : ProtectedPage(o)

GatingSpec == GatingInit /\ [][GatingNext]_vars

\* ------------------------------------------------------ step recognition
\* The step is a handleVote call for item c that got past the identity gate
\* and suspended at its remote write.
VoteStarted(c) ==
    /\ Len(tasks') = Len(tasks) + 1
    /\ tasks'[Len(tasks')].kind = "vote"
    /\ tasks'[Len(tasks')].item = c

\* The step is the store answering the write of the vote task at position i.
WriteAnswered(i) ==
    /\ tasks[i].kind = "vote" /\ tasks[i].pc = "sent"
    /\ \E r \in Outcomes :
          tasks' = [tasks EXCEPT ![i].pc = "replied", ![i].res = r]

\* The step is the continuation of the vote task at position i.
VoteResolved(i) ==
    /\ tasks[i].kind = "vote" /\ tasks[i].pc = "replied"
    /\ \/ tasks' = RemoveAt(tasks, i)
       \/ /\ Len(tasks') = Len(tasks)
          /\ tasks'[i].pc = "sent"
          /\ tasks'[i].writes = tasks[i].writes + 1
          /\ \A j \in 1..Len(tasks) : j # i => tasks'[j] = tasks[j]

Row(uid, c) == votesTbl[<<uid, c>>]

\* ------------------------------------------------------------------ C1
\* C1: after castVote calls that do not overlap on an item, made from a state
\* where the mapping mirrored the store, the local mapping equals what a fresh
\* loadUserVotes of the identity returns; while votes on other items are still
\* in flight this holds for every item that has no vote in flight.
C1_LocalMirrorsRemote ==
    settled =>
        /\ user # Null
        /\ \A c \in Items :
              ~InFlight(c) => userVotes[c] = FetchMap(votesTbl, user)[c]

C1_Witness ==
    /\ settled /\ tasks = <<>> /\ nVotes = 2
    /\ \E c \in Items : userVotes[c] = Down /\ Row(user, c) = <<Down>>

\* ------------------------------------------------------------------ C2
\* C2: the remote vote table holds at most one row per (identity, item).
C2_AtMostOneRow ==
    \A k \in Identities \X Items : Len(votesTbl[k]) <= 1

\* the second write on a pair that already holds a row has been applied
C2_Witness ==
    /\ nVotes = 2
    /\ \E i \in VoteTasks :
          /\ tasks[i].pc = "replied" /\ tasks[i].res = "ok"
          /\ tasks[i].op = "upsert"
          /\ userVotes[tasks[i].item] = -tasks[i].dir
          /\ Row(tasks[i].uid, tasks[i].item) = <<tasks[i].dir>>

\* ------------------------------------------------------------------ C3
\* C3 (variants with undo): a click on the direction the mapping shows sends
\* a delete for (identity, item); once the store has applied it no row is left
\* for the pair, and on success the key is gone from the local mapping.
C3_UndoStep ==
    HasUndo(variant) =>
        /\ \A c \in Items :
              (VoteStarted(c) /\ userVotes[c] # NoVote
                 /\ tasks'[Len(tasks')].dir = userVotes[c])
              => /\ tasks'[Len(tasks')].op = "delete"
                 /\ tasks'[Len(tasks')].uid = user
        /\ \A i \in 1..Len(tasks) :
              (WriteAnswered(i) /\ tasks[i].op = "delete"
                 /\ tasks'[i].res = "ok")
              => Row(tasks[i].uid, tasks[i].item)' = <<>>
        /\ \A i \in 1..Len(tasks) :
              (VoteResolved(i) /\ tasks[i].op = "delete"
                 /\ tasks[i].res = "ok")
              => userVotes'[tasks[i].item] = NoVote

C3_Undo == [][C3_UndoStep]_vars

\* the mapping shows d, d was clicked again, and the delete has been applied
C3_Witness ==
    /\ HasUndo(variant) /\ settled /\ nVotes = 2
    /\ \E i \in VoteTasks :
          /\ tasks[i].op = "delete" /\ tasks[i].pc = "replied"
          /\ tasks[i].res = "ok"
          /\ userVotes[tasks[i].item] = tasks[i].dir
          /\ Row(tasks[i].uid, tasks[i].item) = <<>>

\* ------------------------------------------------------------------ C4
\* C4 (variants that upsert): a click on the direction opposite to the one the
\* mapping shows sends one upsert and nothing else; once applied the row holds
\* the new direction, and on success so does the local mapping.
C4_FlipStep ==
    variant # "insert" =>
        /\ \A c \in Items :
              (VoteStarted(c) /\ userVotes[c] # NoVote
                 /\ tasks'[Len(tasks')].dir = -userVotes[c])
              => /\ tasks'[Len(tasks')].op = "upsert"
                 /\ tasks'[Len(tasks')].writes = 1
        /\ \A i \in 1..Len(tasks) :
              (WriteAnswered(i) /\ tasks[i].op = "upsert"
                 /\ tasks'[i].res = "ok")
              => Row(tasks[i].uid, tasks[i].item)' = <<tasks[i].dir>>
        /\ \A i \in 1..Len(tasks) :
              (VoteResolved(i) /\ tasks[i].op = "upsert")
              => /\ tasks' = RemoveAt(tasks, i)
                 /\ tasks[i].res = "ok"
                      => userVotes'[tasks[i].item] = tasks[i].dir

C5_NoIdentityStep ==
    /\ user = Null => \A c \in Items : ~VoteStarted(c)
    /\ refused' => /\ user = Null
                   /\ UNCHANGED <<userVotes, captions, error, votingId,
                                  loading, tasks, votesTbl, user, session,
                                  nVotes>>

C5_NoIdentityNoOp == [][C5_NoIdentityStep]_vars

\* handleVote was called before the bootstrap had set the identity
C5_Witness ==
    /\ refused /\ user = Null /\ session # Null

\* ------------------------------------------------------------------ C6
\* C6: a handleVote call with an identity sends exactly one remote write: it
\* suspends with one write sent, and no invocation ever sends a second one.
C6_OneWriteStep ==
    /\ (user # Null /\ nVotes' # nVotes)
       => /\ Len(tasks') = Len(tasks) + 1
          /\ tasks'[Len(tasks')].kind = "vote"
          /\ tasks'[Len(tasks')].pc = "sent"
          /\ tasks'[Len(tasks')].writes = 1
    /\ \A i \in 1..Len(tasks') :
          tasks'[i].kind = "vote" => tasks'[i].writes = 1
    /\ \A i \in 1..Len(tasks) : VoteResolved(i) => tasks' = RemoveAt(tasks, i)

C6_OneWrite == [][C6_OneWriteStep]_vars

\* the undo path and a failure path: a delete that was refused
C6_Witness ==
    /\ nVotes = 2
    /\ \E i \in VoteTasks :
          /\ tasks[i].op = "delete" /\ tasks[i].pc = "replied"
          /\ tasks[i].res = "error" /\ tasks[i].writes = 1

\* ------------------------------------------------------------------ C7
\* C7: handleVote changes the local mapping only in the continuation of a
\* write that succeeded: not when it sends the write, not while the write is
\* pending, and not when the write failed with an error or an exception.
C7_FailureStep ==
    /\ (\E c \in Items : VoteStarted(c)) => UNCHANGED userVotes
    /\ \A i \in 1..Len(tasks) :
          (WriteAnswered(i) \/ (VoteResolved(i) /\ tasks[i].res # "ok"))
          => UNCHANGED userVotes

C7_FailureKeepsMapping == [][C7_FailureStep]_vars

\* a write that threw is about to be resumed while the mapping holds a vote
C7_Witness ==
    /\ userVotes # EmptyVotes
    /\ \E i \in VoteTasks :
          /\ tasks[i].pc = "replied" /\ tasks[i].res = "throw"
          /\ tasks[i].dir # userVotes[tasks[i].item]

\* ------------------------------------------------------------------ C8
\* C8: every failed vote write ends with the error state set (a message the
\* user sees) and the in-flight marker cleared.
C8_FailureSurfacedStep ==
    \A i \in 1..Len(tasks) :
        (VoteResolved(i) /\ tasks[i].res # "ok")
        => /\ error' # Null
           /\ votingId' = Null

C8_FailureSurfaced == [][C8_FailureSurfacedStep]_vars

\* ------------------------------------------------------------------ C9
\* C9 (variants with an in-flight marker): as long as a vote on an item is in
\* flight the item is the marked one, so its controls are disabled, whatever
\* votes on other items start or finish meanwhile.
C9_InFlightDisabled ==
    HasVotingId(variant) => \A c \in Items : InFlight(c) => Disabled(c)

\* ----------------------------------------------------------------- C10
\* C10: when the session ends, the listener empties the content list and the
\* vote mapping and ends loading, whatever is in flight at that moment.
C10_SignedOutStep ==
    (session # Null /\ session' = Null)
    => /\ captions' = {}
       /\ userVotes' = EmptyVotes
       /\ loading' = FALSE
       /\ user' = Null

C10_SignedOutClears == [][C10_SignedOutStep]_vars

\* signed out with a load and a vote still in flight
C10_Witness ==
    /\ session = Null /\ user = Null
    /\ \E i, j \in 1..Len(tasks) :
          /\ tasks[i].kind = "load" /\ tasks[i].pc = "votesSent"
          /\ tasks[j].kind = "vote"
    /\ captions = {} /\ userVotes = EmptyVotes /\ ~loading
    /\ \E k \in Identities \X Items : votesTbl[k] # <<>>

\* ----------------------------------------------------------------- C11
\* C11: a request the callback route has finished was answered with a redirect
\* to the protected route when it carried a code and the exchange succeeded,
\* and with a redirect to the landing route when the code was missing or the
\* exchange failed.
C11_CallbackRedirect ==
    \A i \in 1..Len(requests) :
        requests[i].pc = "done" =>
            requests[i].response =
                IF Truthy(requests[i].code) /\ requests[i].res = "ok"
                THEN Protected ELSE Landing

\* ----------------------------------------------------------------- C12
\* C12: the callback route calls the code exchange exactly once for a request
\* that carries a code and never for one without; either way a finished
\* request was answered with a redirect.
C12_ExchangeOnce ==
    \A i \in 1..Len(requests) :
        /\ requests[i].exchanges = IF Truthy(requests[i].code) THEN 1 ELSE 0
        /\ requests[i].pc = "done" =>
              requests[i].response \in {Landing, Protected}

\* ----------------------------------------------------------------- C13
\* C13: when initialize ends without starting a load (the provider reported no
\* session, or the query failed), loading is over afterwards, the failure is
\* not put into the error state, and no identity is set.
C13_InitializeStep ==
    \A i \in 1..Len(tasks) :
        (tasks[i].pc = "getSession" /\ tasks' = RemoveAt(tasks, i))
        => /\ loading' = FALSE
           /\ error' = error
           /\ user' \in {Null, user}

C13_InitializeCompletes == [][C13_InitializeStep]_vars

\* ----------------------------------------------------------------- C14
\* C14: every change of the session to a signed-in identity starts a load for
\* that identity; when the content fetch of a load succeeds the content list
\* is the fetched content, and when its vote fetch succeeds the mapping is
\* exactly the rows of the load's identity, whatever it held before; if the
\* load was the only thing in flight the mapping then mirrors the store.
C14_FreshLoadStep ==
    /\ (session' # session /\ session' # Null)
       => /\ user' = session'
          /\ tasks' = Append(tasks, LoadTask("content", session'))
    /\ \A i \in 1..Len(tasks) :
          /\ (ContentResolve(i, "ok") /\ ~CombinedLoad(variant))
             => captions' = captionsTbl
          /\ VotesResolve(i, "ok")
             => /\ userVotes' = FetchMap(votesTbl, tasks[i].uid)
                /\ CombinedLoad(variant) => captions' = captionsTbl
                /\ (Len(tasks) = 1 /\ user = tasks[i].uid) => Synced'

C14_FreshLoad == [][C14_FreshLoadStep]_vars

\* signed in again after a sign-out emptied the mapping: the load is alone in
\* flight and the store holds a row the mapping does not show yet
C14_Witness ==
    /\ Len(tasks) = 1 /\ tasks[1].kind = "load" /\ tasks[1].pc = "votesSent"
    /\ user = tasks[1].uid /\ session = user
    /\ userVotes = EmptyVotes
    /\ FetchMap(votesTbl, user) # EmptyVotes

\* ----------------------------------------------------------------- C15
\* C15: a vote write carries the identity the page held when handleVote was
\* called; the identity of an invocation in flight never changes, whatever
\* happens to the session meanwhile, and the store changes only the row of
\* that identity and item.
C15_WriteIdentityStep ==
    /\ \A c \in Items :
          VoteStarted(c) => tasks'[Len(tasks')].uid = user
    /\ Len(tasks') >= Len(tasks)
       => \A i \in VoteTasks : tasks'[i].uid = tasks[i].uid
    /\ \A i \in 1..Len(tasks) :
          WriteAnswered(i)
          => \A k \in Identities \X Items :
                k # <<tasks[i].uid, tasks[i].item>>
                => votesTbl'[k] = votesTbl[k]
    /\ votesTbl' # votesTbl => \E i \in 1..Len(tasks) : WriteAnswered(i)

C15_WriteIdentity == [][C15_WriteIdentityStep]_vars

\* the session changed to another account while a vote was in flight; the
\* write has been applied under the identity that cast it
C15_Witness ==
    \E i \in VoteTasks :
        /\ tasks[i].pc = "replied" /\ tasks[i].res = "ok"
        /\ user # Null /\ user # tasks[i].uid /\ session = user
        /\ Row(tasks[i].uid, tasks[i].item) = <<tasks[i].dir>>
        /\ Row(user, tasks[i].item) = <<>>

\* ----------------------------------------------------------------- C16
\* C16: when the vote fetch of a load fails (an error result or a rejected
\* call), the error state is not set and the vote mapping is empty afterwards.
C16_FailedVotesFetchStep ==
    \A i \in 1..Len(tasks) :
        (VotesResolve(i, "error") \/ VotesResolve(i, "throw"))
        => /\ error' = error
           /\ userVotes' = EmptyVotes

C16_FailedVotesFetch == [][C16_FailedVotesFetchStep]_vars

\* ----------------------------------------------------------------- C17
\* C17: when the content fetch of a load fails (an error result or a rejected
\* call), the error message is set and loading ends, and the fetch is not sent
\* again: the failed fetch leaves the set of content fetches in flight, and a
\* content fetch only ever appears for the identity a session event or the
\* bootstrap has just delivered.
ContentFetches(ts) ==
    {j \in 1..Len(ts) : ts[j].kind = "load" /\ ts[j].pc = "content"}

C17_ContentFailureStep ==
    /\ \A i \in 1..Len(tasks) :
          (ContentResolve(i, "error") \/ ContentResolve(i, "throw"))
          => /\ error' # Null
             /\ loading' = FALSE
             /\ Cardinality(ContentFetches(tasks'))
                  = Cardinality(ContentFetches(tasks)) - 1
    /\ Cardinality(ContentFetches(tasks')) > Cardinality(ContentFetches(tasks))
       => /\ Cardinality(ContentFetches(tasks'))
               = Cardinality(ContentFetches(tasks)) + 1
          /\ user' # Null
          /\ \E j \in ContentFetches(tasks') : tasks'[j].uid = user'

C17_ContentFailure == [][C17_ContentFailureStep]_vars

\* ----------------------------------------------------------------- C18
\* C18 (page.tsx App): a content fetch that succeeds against an empty table
\* leaves an empty content list, sets no error and ends loading; the page then
\* shows the empty state and not the error banner for a signed-in user, unless
\* an earlier failure had already set the error.
C18_EmptyTableStep ==
    variant = "undoLog" =>
        \A i \in 1..Len(tasks) :
            (ContentResolve(i, "ok") /\ captionsTbl = {})
            => /\ captions' = {}
               /\ error' = error
               /\ loading' = FALSE
               /\ (user # Null /\ error = Null)
                  => EmptyStateShown' /\ ~ErrorShown'

C18_EmptyTable == [][C18_EmptyTableStep]_vars

\* the load against the empty table has completed and the empty state shows
C18_Witness ==
    /\ variant = "undoLog" /\ captionsTbl = {}
    /\ tasks = <<>> /\ user # Null /\ session = user
    /\ EmptyStateShown

\* ----------------------------------------------------------------- C19
\* C19: starting with no votes, once each vote has settled: after the first
\* vote (c, d) the store holds the row (u, c, d) and the mapping is {c: d};
\* after the same vote again the row is deleted and the key is gone; after a
\* third vote (c', d') the store holds the row (u, c', d') and the mapping is
\* {c': d'}.  With u1, c1, up, up, down this is the scenario of the spec.
OnlyVote(c, d) ==
    /\ userVotes = [EmptyVotes EXCEPT ![c] = d]
    /\ votesTbl = [EmptyTbl EXCEPT ![<<user, c>>] = <<d>>]

C19_VoteUndoVote ==
    (tasks = <<>> /\ user # Null) =>
        /\ nVotes = 1 => \E c \in Items, d \in Dirs : OnlyVote(c, d)
        /\ nVotes = 2 => userVotes = EmptyVotes /\ votesTbl = EmptyTbl
        /\ nVotes = 3 => \E c \in Items, d \in Dirs : OnlyVote(c, d)

\* u1 has voted on c1 three times and the third vote, down, has settled
C19_Witness ==
    /\ tasks = <<>> /\ user = "u1" /\ nVotes = 3
    /\ OnlyVote("c1", Down)

\* C20: once the page component is torn down, the auth-state subscription is
\* released and stays released, the listener is never invoked again (session
\* changes start no load and no handler), and no continuation of a handler
\* that was suspended at teardown changes the view state: identity, list,
\* mapping, loading flag, error and in-flight marker stay as they were.
\* Scope: src/unnamed/part_000 and src/components/LoginButton.tsx.
C20_TeardownStep ==
    /\ ~mounted' => ~subscribed'
    /\ ~mounted =>
         /\ ~mounted'
         /\ UNCHANGED <<user, captions, userVotes, loading, error, votingId>>
         /\ Len(tasks') <= Len(tasks)
         /\ session' # session => tasks' = tasks

Unanswered(ts, c) ==
    \E i \in 1..Len(ts) :
        ts[i].kind = "vote" /\ ts[i].pc = "sent" /\ ts[i].item = c

\* C21 (variants with an in-flight marker): while the write of a vote on an
\* item stays unanswered, the item that was marked in flight stays marked in
\* the next state, whatever else happens (other votes start or finish, the
\* session changes, loads resolve).
C21_HungVoteStep ==
    HasVotingId(variant) =>
        \A c \in Items :
            (Unanswered(tasks, c) /\ Unanswered(tasks', c) /\ Disabled(c))
            => Disabled(c)'

C21_HungVoteStaysDisabled == [][C21_HungVoteStep]_vars

\* ----------------------------------------------------------------- C22
\* C22: every signInWithOAuth call, from every sign-in entry point, passes
\* <origin>/auth/callback of the page's own origin as its redirect target.
C22_FixedReturnAddress ==
    \A k \in 1..Len(signIns) :
        signIns[k].redirectTo = Address(signIns[k].origin, CallbackPath)

\* ----------------------------------------------------------------- C23
\* C23: the callback is idempotent on retry: two handled requests with the
\* same code parameter (the same code, or both without a code) were answered
\* with the same redirect response; the route keeps nothing between them.
C23_CallbackIdempotent ==
    \A i, j \in 1..Len(requests) :
        (/\ requests[i].pc = "done" /\ requests[j].pc = "done"
         /\ requests[i].code = requests[j].code)
        => requests[i].response = requests[j].response

\* ----------------------------------------------------------------- C24
\* C24 (the page that only upserts, LoginButton.tsx Home): every handleVote
\* sends an upsert, also a click on the direction already held; an applied
\* write leaves the row at its direction, its continuation leaves the local
\* entry at its direction, no step removes a row, and no continuation of a
\* vote takes an entry out of the mapping.
C24_OverwriteStep ==
    variant = "upsert" =>
        /\ \A c \in Items :
              VoteStarted(c) => tasks'[Len(tasks')].op = "upsert"
        /\ \A u \in Identities, c \in Items :
              Row(u, c) # <<>> => votesTbl'[<<u, c>>] # <<>>
        /\ \A i \in 1..Len(tasks) :
              /\ (WriteAnswered(i) /\ tasks'[i].res = "ok")
                 => votesTbl'[<<tasks[i].uid, tasks[i].item>>]
                      = <<tasks[i].dir>>
              /\ VoteResolved(i)
                 => /\ \A c \in Items :
                          userVotes[c] # NoVote => userVotes'[c] # NoVote
                    /\ tasks[i].res = "ok"
                       => userVotes'[tasks[i].item] = tasks[i].dir

C24_Overwrite == [][C24_OverwriteStep]_vars

\* The second vote of the run clicked the direction the mapping already held:
\* its upsert was applied and the row is still at that direction.
C24_Witness ==
    /\ variant = "upsert"
    /\ nVotes = 2
    /\ \E i \in 1..Len(tasks) :
          /\ tasks[i].kind = "vote" /\ tasks[i].pc = "replied"
          /\ tasks[i].res = "ok" /\ tasks[i].op = "upsert"
          /\ Len(tasks) = 1
          /\ userVotes[tasks[i].item] = tasks[i].dir
          /\ Row(tasks[i].uid, tasks[i].item) = <<tasks[i].dir>>

\* ----------------------------------------------------------------- C25
\* C25: while nobody is signed in (the identity is null before and after the
\* step) a content list and a vote mapping that are empty stay empty,
\* whichever fetch or vote write that was in flight resolves in that step.
C25_SignedOutStaysEmptyStep ==
    (/\ user = Null /\ user' = Null
     /\ captions = {} /\ userVotes = EmptyVotes)
    => (captions' = {} /\ userVotes' = EmptyVotes)

C25_SignedOutStaysEmpty == [][C25_SignedOutStaysEmptyStep]_vars

\* ----------------------------------------------------------------- C26
\* C26: the continuation of a vote, or of a vote fetch, that was started
\* under an identity other than the one now signed in leaves the mapping shown
\* to the current identity as it is.
C26_ForeignResultStep ==
    \A i \in 1..Len(tasks) :
        (/\ user # Null /\ tasks[i].uid # user
         /\ (VoteResolve(i) \/ VotesResolve(i, "ok")))
        => userVotes' = userVotes

C26_ForeignResultIgnored == [][C26_ForeignResultStep]_vars

\* ----------------------------------------------------------------- C27
\* C27 (pages with undo): a vote write is absolute.  An applied upsert of d
\* leaves the row at d and an applied delete leaves no row, whatever row was
\* there; the continuation of an upsert of d sets the entry to d and that of a
\* delete removes it, whatever the entry was.  When the answers arrive in
\* the order the store applied the writes, the mapping equals the rows of the
\* identity as soon as nothing is in flight any more, also after votes on the
\* same item overlapped.
C27_AbsoluteStep ==
    /\ \A i \in 1..Len(tasks) :
          /\ StoreApply(i)
             => votesTbl'[<<tasks[i].uid, tasks[i].item>>]
                  = IF tasks[i].op = "delete" THEN <<>> ELSE <<tasks[i].dir>>
          /\ Deliver(i)
             => userVotes'[tasks[i].item]
                  = IF tasks[i].op = "delete" THEN NoVote ELSE tasks[i].dir
    /\ tasks' = <<>> => userVotes' = FetchMap(votesTbl', user')

C27_AbsoluteWrites == [][C27_AbsoluteStep]_vars

\* Two votes on the same item that ask for different outcomes have both been
\* applied, the later one is not the one called first, and neither answer has
\* been delivered yet.
C27_Witness ==
    /\ Len(tasks) = 2
    /\ RepliedVotes = {1, 2}
    /\ tasks[1].item = tasks[2].item
    /\ tasks[1].seq > tasks[2].seq
    /\ <<tasks[1].op, tasks[1].dir>> # <<tasks[2].op, tasks[2].dir>>
    /\ Row(user, tasks[1].item) # <<userVotes[tasks[1].item]>>

\* ----------------------------------------------------------------- C28
\* C28: a vote touches its own item only.  The call changes no row and no
\* entry; the store's answer changes no row but the one of the vote's identity
\* and item; the continuation changes no entry but the one of its item, so the
\* entry written by a vote on another item that finished meanwhile is kept.
C28_OtherItemsStep ==
    /\ \A c \in Items :
          VoteStarted(c) => (votesTbl' = votesTbl /\ userVotes' = userVotes)
    /\ \A i \in 1..Len(tasks) :
          /\ WriteAnswered(i)
             => \A u \in Identities, c \in Items :
                   <<u, c>> # <<tasks[i].uid, tasks[i].item>>
                   => votesTbl'[<<u, c>>] = votesTbl[<<u, c>>]
          /\ VoteResolved(i)
             => /\ votesTbl' = votesTbl
                /\ \A c \in Items :
                      c # tasks[i].item => userVotes'[c] = userVotes[c]

C28_OtherItemsUntouched == [][C28_OtherItemsStep]_vars

\* Votes on two different items were in flight together (the marker of the
\* one still in flight was reset by the other's `finally`): one has finished
\* and set its entry, the other has been applied and is about to finish.
C28_Witness ==
    /\ nVotes = 2 /\ Len(tasks) = 1
    /\ tasks[1].kind = "vote" /\ tasks[1].pc = "replied"
    /\ tasks[1].res = "ok"
    /\ \E c \in Items :
          /\ c # tasks[1].item
          /\ userVotes[c] # NoVote
          /\ userVotes[tasks[1].item] = NoVote
          /\ Row(tasks[1].uid, tasks[1].item) # <<>>
          /\ HasVotingId(variant) /\ votingId = Null

\* ----------------------------------------------------------------- C29
\* A load started for the identity now signed in still has its content fetch
\* or its vote fetch in flight.
LoadPending ==
    \E i \in 1..Len(tasks) :
        /\ tasks[i].kind = "load" /\ tasks[i].pc \in {"content", "votesSent"}
        /\ user # Null /\ tasks[i].uid = user

\* C29: as long as the content fetch or the vote fetch of a load for the
\* current identity is in flight, loading is true, so the loading screen is
\* shown and no vote control can be used.
C29_LoadingUntilVotesLoaded ==
    LoadPending => (loading /\ \A c \in Items : ~Rendered(c))

\* ----------------------------------------------------------------- C30
\* C30 (its safety half): while somebody is signed in, loading is false only
\* when no content fetch is in flight, also when the load of initAuth and a
\* load started by a session change overlap.
C30_LoadingFalseMeansLoaded ==
    (~loading /\ user # Null) => ContentFetches(tasks) = {}

\* ----------------------------------------------------------------- C31
\* C31 (LoginButton.tsx Home and part_001, whose fetchData does both
\* fetches): a load is all-or-nothing.  The answer to the content fetch alone
\* changes nothing; when the vote fetch succeeds too, the list and the
\* mapping are replaced in the same step by what was fetched, loading ends
\* and the error is left as it is; when either fetch fails (error result or
\* rejection), the list and the mapping stay as they were, the error message
\* is set and loading ends.
C31_AllOrNothingStep ==
    variant \in {"upsert", "insert"} =>
        \A i \in 1..Len(tasks) :
            /\ ContentResolve(i, "ok")
               => UNCHANGED <<captions, userVotes, error, loading>>
            /\ VotesResolve(i, "ok")
               => /\ captions' = captionsTbl
                  /\ userVotes' = FetchMap(votesTbl, tasks[i].uid)
                  /\ error' = error
                  /\ ~loading'
            /\ \A o \in {"error", "throw"} :
                  (ContentResolve(i, o) \/ VotesResolve(i, o))
                  => /\ UNCHANGED <<captions, userVotes>>
                     /\ error' # Null
                     /\ ~loading'

C31_AllOrNothing == [][C31_AllOrNothingStep]_vars

\* part_001 after a reload that failed: the message is shown (only a load
\* sets it there), and the list and the votes of the earlier load are kept.
C31_Witness ==
    /\ variant = "insert"
    /\ tasks = <<>> /\ ~loading
    /\ error # Null
    /\ captions = Items
    /\ userVotes # EmptyVotes

\* ----------------------------------------------------------------- C32
\* C32 (part_001, which only inserts, with the store's uniqueness constraint
\* on identity and item): once an identity has a row for an item, every later
\* vote of that identity on the item is an insert the store refuses, no step
\* changes the row, and the continuation of the refused vote leaves the
\* mapping as it was; the direction can be neither flipped nor undone.
C32_FirstVoteFixedStep ==
    variant = "insert" =>
        /\ \A c \in Items :
              VoteStarted(c) => tasks'[Len(tasks')].op = "insert"
        /\ \A u \in Identities, c \in Items :
              Row(u, c) # <<>> => votesTbl'[<<u, c>>] = Row(u, c)
        /\ \A i \in 1..Len(tasks) :
              /\ (WriteAnswered(i) /\ Row(tasks[i].uid, tasks[i].item) # <<>>)
                 => tasks'[i].res # "ok"
              /\ (VoteResolved(i) /\ tasks[i].res # "ok")
                 => userVotes' = userVotes

C32_FirstVoteFixed == [][C32_FirstVoteFixedStep]_vars

\* The second vote of the identity on an item asked for the other direction;
\* the store has refused it and the row and the entry still hold the first.
C32_Witness ==
    /\ variant = "insert"
    /\ nVotes = 2 /\ Len(tasks) = 1
    /\ tasks[1].kind = "vote" /\ tasks[1].pc = "replied"
    /\ tasks[1].res = "error"
    /\ Row(tasks[1].uid, tasks[1].item) = <<0 - tasks[1].dir>>
    /\ userVotes[tasks[1].item] = 0 - tasks[1].dir

\* ----------------------------------------------------------------- C33
\* C33: content is shown to an authenticated identity only.  A client page
\* has items and vote controls on the screen only while its identity is not
\* null, before and after every step, whatever its content list holds.  A
\* render of the protected page answers with the redirect to / whenever
\* getUser returned no user, and with the gated content only when it returned
\* the user of a session.
C33_GatingStep ==
    /\ ItemsShown # {} => user # Null
    /\ ItemsShown' # {} => user' # Null
    /\ \A o \in Outcomes :
          ProtectedPage(o) =>
             LET r == requests'[Len(requests')] IN
             /\ (o # "throw" /\ SessionSeen(o) = Null) => r.response = Landing
             /\ r.response = GatedContent => (o = "ok" /\ session # Null)

C33_Gating == [][C33_GatingStep]_vars

\* The content list of a page was filled again after the sign-out (by a
\* fetch that was in flight), the page shows none of it, and a render of the
\* protected page without a session has been answered with the redirect.
C33_Witness ==
    /\ user = Null /\ session = Null /\ ~loading
    /\ captions # {}
    /\ ItemsShown = {}
    /\ \E k \in 1..Len(requests) :
          /\ requests[k].pc = "rendered" /\ requests[k].res = "ok"
          /\ requests[k].response = Landing

====
